---- MODULE Spec2Model ----
(***************************************************************************)
(* Model of ethcore/private-tx/src/private_transactions.rs:                *)
(*   - PrivateScorying (compare / choose / should_replace / update_scores) *)
(*   - PrivateReadyState::is_ready                                         *)
(*   - VerificationStore (add_transaction, drain) on top of txpool::Pool   *)
(*   - SigningStore (add_transaction, get, remove, add_signature)          *)
(*                                                                         *)
(* txpool::Pool and pool::verifier::Verifier are external crates; the parts*)
(* of them that the store drives (import, pending, remove, the nonce check *)
(* of the verifier) are modelled from their interface.                     *)
(*                                                                         *)
(* Scaling.  MAX_QUEUE_LEN is 8312 and the per-sender divisor is 10 in the *)
(* source.  Both are scaled down here (4 and 2) so that the ceilings are   *)
(* reachable; every comparison against them is kept exactly as written in  *)
(* the source.  U256 arithmetic is modelled on unbounded naturals: the     *)
(* gas prices and nonces used are far below 2^256.                         *)
(***************************************************************************)
EXTENDS Naturals, Sequences, FiniteSets, TLC

\* const MAX_QUEUE_LEN: usize = 8312 (scaled)
MAX_QUEUE_LEN == 4
\* MAX_QUEUE_LEN / 10 in VerificationStore::default (divisor scaled)
PER_SENDER_DIVISOR == 2
\* const GAS_PRICE_BUMP_SHIFT: usize = 3
GAS_PRICE_BUMP_SHIFT == 3

\* How far the chain advances a sender's account nonce.
MaxAccountNonce == 1

Senders == {1, 2}
Nonces == {0, 1, 2}
GasPrices == {16, 17, 18}

\* VerifiedPrivateTransaction, reduced to what scoring, readiness and the pool
\* read: transaction_sender, transaction.nonce, transaction.gas_price.
VerifiedPrivateTransaction == [sender : Senders, nonce : Nonces, gas_price : GasPrices]

\* transaction_hash: the hash of the signed transaction, derived from its content.
hash(tx) == <<tx.sender, tx.nonce, tx.gas_price>>

sender(tx) == tx.sender

Range(s) == {s[i] : i \in DOMAIN s}

VARIABLES
    verification_pool,   \* VerificationStore.verification_pool: sender -> its records, by nonce
    account_nonce,       \* the chain state read through NonceClient::account_nonce
    last_call,           \* the last VerificationStore call: operation, result, returned records
    scoring_old,         \* PrivateScorying inputs and verdicts (pure-function checks)
    scoring_new,
    scoring_out,
    transactions,        \* SigningStore.transactions: hash -> PrivateTransactionSigningDesc
    signing_call,        \* the last SigningStore call: operation, arguments, result, and
                         \* the signatures of the record an insert replaced
    ready_nonces,        \* PrivateReadyState.nonces of one PrivateReadyState
    ready_call,          \* the last call on it: operation, record, Readiness
    ready_yielded,       \* history: the senders it has answered Ready for
    lock_writer,         \* RwLock of verification_pool: the thread holding it exclusively
    lock_readers,        \* RwLock of verification_pool: the threads holding it shared
    pc,                  \* where each thread is in its add_transaction or drain call
    thread_res,          \* each thread's local: drain's res, add_transaction's verified record
    admitted,            \* history: how often each record was imported
    returned,            \* history: how often each record was returned by a drain
    between              \* history: the records imported since a drainer's collect

vars == <<verification_pool, account_nonce, last_call,
          scoring_old, scoring_new, scoring_out, transactions, signing_call,
          ready_nonces, ready_call, ready_yielded,
          lock_writer, lock_readers, pc, thread_res, admitted, returned, between>>

poolVars == <<verification_pool, account_nonce, last_call>>
scoringVars == <<scoring_old, scoring_new, scoring_out>>
signingVars == <<transactions, signing_call>>
readyVars == <<ready_nonces, ready_call, ready_yielded>>
lockVars == <<lock_writer, lock_readers>>
threadVars == <<pc, thread_res>>
historyVars == <<admitted, returned, between>>
concurrentVars == <<lockVars, threadVars, historyVars>>

----------------------------------------------------------------------------
(* PrivateScorying *)

\* cmp::Ordering of two naturals
cmp(a, b) == IF a < b THEN "Less" ELSE IF a = b THEN "Equal" ELSE "Greater"

\* Variant of compare: records with equal nonces are ordered by price, dearest first.
compare_then_fee(old, other) ==
    IF old.nonce # other.nonce
    THEN cmp(old.nonce, other.nonce)
    ELSE cmp(other.gas_price, old.gas_price)

\* PrivateScorying::compare
compare(old, other) == cmp(old.nonce, other.nonce)

\* Variant of choose: the price bump is left out of the required price.
choose_no_bump(old, new) ==
    IF old.nonce # new.nonce
    THEN "InsertNew"
    ELSE IF cmp(old.gas_price, new.gas_price) = "Greater"
         THEN "RejectNew"
         ELSE "ReplaceOld"

choose(old, new) ==
    IF old.nonce # new.nonce
    THEN "InsertNew"
    ELSE LET old_gp == old.gas_price
             new_gp == new.gas_price
             min_required_gp == old_gp + (old_gp \div (2 ^ GAS_PRICE_BUMP_SHIFT))
         IN  IF cmp(min_required_gp, new_gp) = "Greater"
             THEN "RejectNew"
             ELSE "ReplaceOld"

\* Variant of should_replace: the earliest-nonce preference is left out.
should_replace_fee_only(old, new) == choose(old, new) = "ReplaceOld"

should_replace(old, new) ==
    IF sender(old) = sender(new) /\ new.nonce < old.nonce
    THEN TRUE
    ELSE choose(old, new) = "ReplaceOld"

\* update_scores: the score of a slot is the record's gas price.
update_scores(tx) == tx.gas_price

----------------------------------------------------------------------------
(* PrivateReadyState *)

\* PrivateReadyState::new: no sender seen yet.
NewReadyState == [s \in {} |-> 0]

\* The tracker's map after nonces.insert(sender, value).
nonces_insert(nonces, s, value) ==
    [x \in DOMAIN nonces \cup {s} |-> IF x = s THEN value ELSE nonces[x]]

\* Variant of is_ready: an occupied entry is compared with the cursor and advanced,
\* as the miner's readiness check does.
is_ready_cursor(nonces, state, tx) ==
    LET cursor == IF sender(tx) \in DOMAIN nonces
                  THEN nonces[sender(tx)] ELSE state[sender(tx)]
    IN  CASE cmp(tx.nonce, cursor) = "Greater" ->
               [readiness |-> "Future", nonces |-> nonces_insert(nonces, sender(tx), cursor)]
          [] cmp(tx.nonce, cursor) = "Less" ->
               [readiness |-> "Stale", nonces |-> nonces_insert(nonces, sender(tx), cursor)]
          [] cmp(tx.nonce, cursor) = "Equal" ->
               [readiness |-> "Ready",
                nonces |-> nonces_insert(nonces, sender(tx), cursor + 1)]

\* Variant of is_ready: a nonce below the account nonce is taken as ready.
is_ready_stale_ready(nonces, state, tx) ==
    LET state_nonce == state[sender(tx)]
    IN  IF sender(tx) \notin DOMAIN nonces
        THEN IF cmp(tx.nonce, state_nonce) = "Greater"
             THEN [readiness |-> "Future",
                   nonces |-> nonces_insert(nonces, sender(tx), state_nonce)]
             ELSE [readiness |-> "Ready",
                   nonces |-> nonces_insert(nonces, sender(tx), state_nonce + 1)]
        ELSE [readiness |-> "Future", nonces |-> nonces]

\* is_ready(&mut self, tx): the verdict and the tracker's nonces afterwards.
\* `nonces` is the HashMap<Address, U256>, `state` the account nonce source.
is_ready(nonces, state, tx) ==
    LET state_nonce == state[sender(tx)]
    IN  IF sender(tx) \notin DOMAIN nonces
        THEN \* Entry::Vacant: entry.insert(state_nonce)
             CASE cmp(tx.nonce, state_nonce) = "Greater" ->
                    [readiness |-> "Future",
                     nonces |-> nonces_insert(nonces, sender(tx), state_nonce)]
               [] cmp(tx.nonce, state_nonce) = "Less" ->
                    [readiness |-> "Stale",
                     nonces |-> nonces_insert(nonces, sender(tx), state_nonce)]
               [] cmp(tx.nonce, state_nonce) = "Equal" ->
                    [readiness |-> "Ready",
                     nonces |-> nonces_insert(nonces, sender(tx), state_nonce + 1)]
        ELSE \* Entry::Occupied
             [readiness |-> "Future", nonces |-> nonces]

----------------------------------------------------------------------------
(* txpool::Pool, as configured by VerificationStore::default *)

max_count == MAX_QUEUE_LEN

\* Variant of max_per_sender: the division is left out.
max_per_sender_undivided == MAX_QUEUE_LEN

max_per_sender == MAX_QUEUE_LEN \div PER_SENDER_DIVISOR

EmptyPool == [s \in Senders |-> <<>>]

\* Every record of the pool.
PoolTxs(p) == UNION {Range(p[s]) : s \in Senders}

\* Pool.by_hash: the hashes of the stored records.
by_hash(p) == {hash(t) : t \in PoolTxs(p)}

\* Pool.worst_transactions / best_transactions: each sender's last / first record.
worst_transactions(p) == {p[s][Len(p[s])] : s \in {x \in Senders : p[x] # <<>>}}

best_transactions(p) == {p[s][1] : s \in {x \in Senders : p[x] # <<>>}}

\* Pool::remove(hash, is_invalid): the record with that hash leaves its sender's list.
pool_remove(p, h) ==
    [s \in Senders |-> SelectSeq(p[s], LAMBDA t : hash(t) # h)]

\* Pool::remove_worst: the lowest-scored of the senders' worst records is dropped
\* if should_replace prefers the incoming record (ties between equal scores are
\* decided by insertion order in the pool; any of them may be the one here).
remove_worst(p, tx) ==
    IF worst_transactions(p) = {}
    THEN {[ok |-> FALSE, pool |-> p]}
    ELSE {IF should_replace(w, tx)
          THEN [ok |-> TRUE, pool |-> pool_remove(p, hash(w))]
          ELSE [ok |-> FALSE, pool |-> p] :
            w \in {x \in worst_transactions(p) :
                     \A o \in worst_transactions(p) : update_scores(x) <= update_scores(o)}}

\* Pool::import, the count-limit loop: while by_hash.len() + 1 > max_count, remove
\* the worst record or fail.
RECURSIVE enforce_count(_, _)
enforce_count(p, tx) ==
    IF Cardinality(by_hash(p)) + 1 > max_count
    THEN UNION {IF o.ok THEN enforce_count(o.pool, tx) ELSE {o} : o \in remove_worst(p, tx)}
    ELSE {[ok |-> TRUE, pool |-> p]}

\* Transactions::add: the sender's list, ordered by Scoring::compare.
transactions_add(l, new, max) ==
    LET index == Cardinality({i \in 1..Len(l) : compare(l[i], new) = "Less"}) + 1
    IN  IF index = Len(l) + 1
        THEN \* push_cheapest_transaction
             IF Len(l) = max
             THEN [result |-> "TooCheapToEnter", txs |-> l]
             ELSE [result |-> "Ok", txs |-> Append(l, new)]
        ELSE CASE choose(l[index], new) = "RejectNew" ->
                    [result |-> "TooCheapToReplace", txs |-> l]
               [] choose(l[index], new) = "InsertNew" ->
                    LET ins == SubSeq(l, 1, index - 1) \o <<new>> \o SubSeq(l, index, Len(l))
                    IN  IF Len(ins) > max
                        THEN [result |-> "Ok", txs |-> SubSeq(ins, 1, Len(ins) - 1)]
                        ELSE [result |-> "Ok", txs |-> ins]
               [] choose(l[index], new) = "ReplaceOld" ->
                    [result |-> "Ok", txs |-> [l EXCEPT ![index] = new]]

\* Pool::import: the possible outcomes {result, pool}.
import(p, tx) ==
    IF hash(tx) \in by_hash(p)
    THEN {[result |-> "AlreadyImported", pool |-> p]}
    ELSE {IF ~e.ok
          THEN [result |-> "TooCheapToEnter", pool |-> e.pool]
          ELSE LET a == transactions_add(e.pool[sender(tx)], tx, max_per_sender)
               IN  [result |-> a.result,
                    pool |-> [e.pool EXCEPT ![sender(tx)] = a.txs]] :
            e \in enforce_count(p, tx)}

\* PendingIterator::next, run to the end: the best candidate is taken; if the
\* readiness oracle says Ready it is yielded and the sender's next record becomes
\* a candidate, otherwise the candidate is dropped.  Candidates of equal score
\* come in insertion order in the pool; any order of them is possible here.
RECURSIVE pending_iter(_, _, _, _)
pending_iter(p, best, nonces, state) ==
    IF best = {}
    THEN {<<>>}
    ELSE UNION {
           LET r == is_ready(nonces, state, b)
               l == p[sender(b)]
               i == CHOOSE k \in 1..Len(l) : l[k] = b
               next == IF i < Len(l) THEN {l[i + 1]} ELSE {}
           IN  IF r.readiness = "Ready"
               THEN {<<b>> \o rest :
                       rest \in pending_iter(p, (best \ {b}) \cup next, r.nonces, state)}
               ELSE pending_iter(p, best \ {b}, r.nonces, state) :
           b \in {x \in best : \A o \in best : update_scores(x) >= update_scores(o)}}

\* Pool::pending(ready).collect()
pending(p, state) == pending_iter(p, best_transactions(p), NewReadyState, state)

----------------------------------------------------------------------------
(* VerificationStore *)

\* verifier.verify_transaction: of the pipeline's checks, the nonce check against
\* the chain state is modelled (Error::Old); the submitted transactions pass the
\* others (signature, gas limits, balance).
verify_transaction(tx, state) ==
    IF tx.nonce < state[sender(tx)] THEN "Old" ELSE "Ok"

\* Variant of drain_remove: every record of a collected record's sender is removed.
drain_remove_by_sender(p, hashes) ==
    [s \in Senders |-> IF \E i \in 1..Len(hashes) : hashes[i][1] = s THEN <<>> ELSE p[s]]

\* drain, second critical section: pool.remove(&hash, true) for each collected hash.
RECURSIVE drain_remove(_, _)
drain_remove(p, hashes) ==
    IF hashes = <<>> THEN p
    ELSE drain_remove(pool_remove(p, Head(hashes)), Tail(hashes))

\* drain, the hashes pushed from the collected records.
drain_hashes(res) == [i \in 1..Len(res) |-> hash(res[i])]

\* VerificationStore::add_transaction on pool p with chain state `state`: the
\* possible outcomes {result, pool}.  A verification error returns before the pool
\* is locked.
add_transaction(p, state, tx) ==
    LET v == verify_transaction(tx, state)
    IN  IF v # "Ok"
        THEN {[result |-> v, pool |-> p]}
        ELSE import(p, tx)

\* VerificationStore::drain on pool p, both critical sections with nothing in
\* between: the possible outcomes {res, pool}.
drain(p, state) ==
    {[res |-> res, pool |-> drain_remove(p, drain_hashes(res))] : res \in pending(p, state)}

VerificationStore_add_transaction(tx) ==
    /\ \E o \in add_transaction(verification_pool, account_nonce, tx) :
         /\ verification_pool' = o.pool
         /\ last_call' = [op |-> "add_transaction", result |-> o.result, res |-> <<>>]
    /\ UNCHANGED <<account_nonce, scoringVars, signingVars, readyVars, concurrentVars>>

VerificationStore_drain ==
    /\ \E o \in drain(verification_pool, account_nonce) :
         /\ verification_pool' = o.pool
         /\ last_call' = [op |-> "drain", result |-> "Ok", res |-> o.res]
    /\ UNCHANGED <<account_nonce, scoringVars, signingVars, readyVars, concurrentVars>>

\* The chain moves on: a sender's account nonce grows by one.
advance_nonce(s) ==
    /\ account_nonce[s] < MaxAccountNonce
    /\ account_nonce' = [account_nonce EXCEPT ![s] = @ + 1]
    /\ last_call' = [op |-> "chain", result |-> "Ok", res |-> <<>>]
    /\ UNCHANGED <<verification_pool, scoringVars, signingVars, readyVars, concurrentVars>>

----------------------------------------------------------------------------
(* PrivateScorying applied to a pair of records *)

scoring_call(old, new) ==
    /\ scoring_old' = <<old>>
    /\ scoring_new' = <<new>>
    /\ scoring_out' = [op |-> "scoring",
                       compare |-> compare(old, new),
                       choose |-> choose(old, new),
                       should_replace |-> should_replace(old, new)]
    /\ UNCHANGED <<poolVars, signingVars, readyVars, concurrentVars>>

----------------------------------------------------------------------------
(* SigningStore *)

\* The private hashes submitted: enough to fill the store and go beyond.
SigningHashes == 1..(MAX_QUEUE_LEN + 2)

\* Hashes for which signatures are submitted.
MaxSignedHash == 1
SignedHashes == 1..MaxSignedHash

\* The signatures submitted.
Signatures == {1, 2}

\* What add_transaction is called with besides the hash:
\* (transaction, validators, state, contract_nonce).
Submissions ==
    {[transaction |-> 1, validators |-> <<1>>, state |-> 10, contract_nonce |-> 0],
     [transaction |-> 2, validators |-> <<1, 2>>, state |-> 20, contract_nonce |-> 1]}

\* SigningStore::default: an empty map.
EmptyStore == [h \in {} |-> 0]

PrivateTransactionSigningDesc(sub) ==
    [original_transaction |-> sub.transaction,
     validators |-> sub.validators,
     received_signatures |-> <<>>,
     state |-> sub.state,
     contract_nonce |-> sub.contract_nonce]

\* HashMap::insert
map_insert(m, k, v) == [h \in DOMAIN m \cup {k} |-> IF h = k THEN v ELSE m[h]]

\* Variant of map_remove: the predicate is inverted, the other entries go.
map_remove_others(m, k) == [h \in DOMAIN m \cap {k} |-> m[h]]

\* HashMap::remove
map_remove(m, k) == [h \in DOMAIN m \ {k} |-> m[h]]

\* What HashMap::insert hands back and add_transaction drops: the signatures of
\* the record that was stored at k, if any.
replaced_signatures(m, k) ==
    IF k \in DOMAIN m THEN m[k].received_signatures ELSE <<>>

\* Variant of signing_add: a full store drops an entry to make room.
signing_add_evicting(m, private_hash, sub) ==
    IF Cardinality(DOMAIN m) > MAX_QUEUE_LEN
    THEN [result |-> "Ok",
          old_signatures |-> replaced_signatures(m, private_hash),
          transactions |-> map_insert(map_remove(m, CHOOSE k \in DOMAIN m : TRUE),
                                      private_hash, PrivateTransactionSigningDesc(sub))]
    ELSE [result |-> "Ok",
          old_signatures |-> replaced_signatures(m, private_hash),
          transactions |-> map_insert(m, private_hash, PrivateTransactionSigningDesc(sub))]

\* Variant of signing_add: the signatures of a record already stored are kept.
signing_add_merging(m, private_hash, sub) ==
    IF Cardinality(DOMAIN m) > MAX_QUEUE_LEN
    THEN [result |-> "QueueIsFull", old_signatures |-> <<>>, transactions |-> m]
    ELSE [result |-> "Ok",
          old_signatures |-> replaced_signatures(m, private_hash),
          transactions |->
              map_insert(m, private_hash,
                         [PrivateTransactionSigningDesc(sub) EXCEPT
                            !.received_signatures = replaced_signatures(m, private_hash)])]

\* SigningStore::add_transaction: the result and the map afterwards.
signing_add(m, private_hash, sub) ==
    IF Cardinality(DOMAIN m) > MAX_QUEUE_LEN
    THEN [result |-> "QueueIsFull", old_signatures |-> <<>>, transactions |-> m]
    ELSE [result |-> "Ok",
          old_signatures |-> replaced_signatures(m, private_hash),
          transactions |-> map_insert(m, private_hash, PrivateTransactionSigningDesc(sub))]

\* Variant of signing_sign: an unknown hash gets a record made for the signature.
signing_sign_creating(m, private_hash, signature) ==
    IF private_hash \notin DOMAIN m
    THEN [result |-> "Ok",
          transactions |-> map_insert(m, private_hash,
                                      [original_transaction |-> 0, validators |-> <<>>,
                                       received_signatures |-> <<signature>>,
                                       state |-> 0, contract_nonce |-> 0])]
    ELSE IF signature \notin Range(m[private_hash].received_signatures)
         THEN [result |-> "Ok",
               transactions |-> [m EXCEPT ![private_hash].received_signatures =
                                   Append(@, signature)]]
         ELSE [result |-> "Ok", transactions |-> m]

\* Variant of signing_sign: a signature of a signer outside the roster is refused.
signing_sign_roster_only(m, private_hash, signature) ==
    IF private_hash \notin DOMAIN m
    THEN [result |-> "PrivateTransactionNotFound", transactions |-> m]
    ELSE IF signature \notin Range(m[private_hash].validators)
         THEN [result |-> "Ok", transactions |-> m]
         ELSE IF signature \notin Range(m[private_hash].received_signatures)
              THEN [result |-> "Ok",
                    transactions |-> [m EXCEPT ![private_hash].received_signatures =
                                        Append(@, signature)]]
              ELSE [result |-> "Ok", transactions |-> m]

\* Variant of signing_sign: the signature is pushed without the contains() test.
signing_sign_always_push(m, private_hash, signature) ==
    IF private_hash \notin DOMAIN m
    THEN [result |-> "PrivateTransactionNotFound", transactions |-> m]
    ELSE [result |-> "Ok",
          transactions |-> [m EXCEPT ![private_hash].received_signatures =
                              Append(@, signature)]]

\* SigningStore::add_signature: the result and the map afterwards.
signing_sign(m, private_hash, signature) ==
    IF private_hash \notin DOMAIN m
    THEN [result |-> "PrivateTransactionNotFound", transactions |-> m]
    ELSE LET desc == m[private_hash]
         IN  IF signature \notin Range(desc.received_signatures)
             THEN [result |-> "Ok",
                   transactions |-> [m EXCEPT ![private_hash].received_signatures =
                                       Append(@, signature)]]
             ELSE [result |-> "Ok", transactions |-> m]

\* SigningStore::get: a copy of the descriptor, or nothing.
SigningStore_get(private_hash) ==
    IF private_hash \in DOMAIN transactions THEN <<transactions[private_hash]>> ELSE <<>>

SigningStore_add_transaction(private_hash, sub) ==
    /\ LET r == signing_add(transactions, private_hash, sub)
       IN  /\ transactions' = r.transactions
           /\ signing_call' = [op |-> "add_transaction", hash |-> private_hash,
                               arg |-> sub.transaction, result |-> r.result,
                               old_signatures |-> r.old_signatures]
    /\ UNCHANGED <<poolVars, scoringVars, readyVars, concurrentVars>>

SigningStore_remove(private_hash) ==
    /\ transactions' = map_remove(transactions, private_hash)
    /\ signing_call' = [op |-> "remove", hash |-> private_hash, arg |-> 0, result |-> "Ok",
                        old_signatures |-> <<>>]
    /\ UNCHANGED <<poolVars, scoringVars, readyVars, concurrentVars>>

SigningStore_add_signature(private_hash, signature) ==
    /\ LET r == signing_sign(transactions, private_hash, signature)
       IN  /\ transactions' = r.transactions
           /\ signing_call' = [op |-> "add_signature", hash |-> private_hash,
                               arg |-> signature, result |-> r.result,
                               old_signatures |-> <<>>]
    /\ UNCHANGED <<poolVars, scoringVars, readyVars, concurrentVars>>

----------------------------------------------------------------------------
(* One PrivateReadyState asked about records one after another, as a pending
   iterator does during one pass *)

\* PrivateReadyState::new
PrivateReadyState_new ==
    /\ ready_nonces' = NewReadyState
    /\ ready_call' = [op |-> "new", tx |-> <<>>, readiness |-> "None"]
    /\ ready_yielded' = {}
    /\ UNCHANGED <<poolVars, scoringVars, signingVars, concurrentVars>>

\* PrivateReadyState::is_ready
PrivateReadyState_is_ready(tx) ==
    LET r == is_ready(ready_nonces, account_nonce, tx)
    IN  /\ ready_nonces' = r.nonces
        /\ ready_call' = [op |-> "is_ready", tx |-> <<tx>>, readiness |-> r.readiness]
        /\ ready_yielded' = IF r.readiness = "Ready"
                            THEN ready_yielded \cup {sender(tx)}
                            ELSE ready_yielded
        /\ UNCHANGED <<poolVars, scoringVars, signingVars, concurrentVars>>

----------------------------------------------------------------------------
(* VerificationStore called from several threads: add_transaction and drain
   step by step, with the RwLock around verification_pool *)

Drainers == {"d1", "d2"}
Adders == {"a1"}
Threads == Drainers \cup Adders

\* The records the concurrent callers submit.
ConcurrentTxs ==
    {[sender |-> 1, nonce |-> 0, gas_price |-> 16],
     [sender |-> 1, nonce |-> 0, gas_price |-> 18]}

\* How often one record is imported.
MaxAdmissions == 1

\* RwLock::read returns when no thread holds the lock exclusively.
read_available == lock_writer = {}

\* RwLock::write returns when no thread holds the lock.
write_available == lock_writer = {} /\ lock_readers = {}

\* Variant of readers_after_collect: the read guard lives on after the collect.
readers_kept(readers, d) == readers

\* drain: the read guard is a temporary of the collect statement and is dropped
\* at its end.
readers_after_collect(readers, d) == readers \ {d}

\* add_transaction up to the lock: the record is verified without the lock; a
\* verification error returns.
add_transaction_verify(a, tx) ==
    /\ pc[a] = "idle"
    /\ admitted[tx] < MaxAdmissions
    /\ IF verify_transaction(tx, account_nonce) = "Ok"
       THEN /\ pc' = [pc EXCEPT ![a] = "verified"]
            /\ thread_res' = [thread_res EXCEPT ![a] = <<tx>>]
       ELSE /\ pc' = pc
            /\ thread_res' = [thread_res EXCEPT ![a] = <<>>]
    /\ UNCHANGED <<poolVars, scoringVars, signingVars, readyVars, lockVars, historyVars>>

\* add_transaction: self.verification_pool.write()
add_transaction_write(a) ==
    /\ pc[a] = "verified"
    /\ write_available
    /\ lock_writer' = {a}
    /\ pc' = [pc EXCEPT ![a] = "importing"]
    /\ UNCHANGED <<poolVars, scoringVars, signingVars, readyVars,
                   lock_readers, thread_res, historyVars>>

\* add_transaction: pool.import(verified)?, the guard is dropped, the call returns.
add_transaction_import(a) ==
    /\ pc[a] = "importing"
    /\ \E o \in import(verification_pool, thread_res[a][1]) :
         /\ verification_pool' = o.pool
         /\ IF o.result = "Ok"
            THEN /\ admitted' = [admitted EXCEPT ![thread_res[a][1]] = @ + 1]
                 /\ between' = [d \in Drainers |->
                                  IF pc[d] = "collected"
                                  THEN between[d] \cup {thread_res[a][1]}
                                  ELSE between[d]]
            ELSE UNCHANGED <<admitted, between>>
    /\ lock_writer' = {}
    /\ pc' = [pc EXCEPT ![a] = "idle"]
    /\ thread_res' = [thread_res EXCEPT ![a] = <<>>]
    /\ UNCHANGED <<account_nonce, last_call, scoringVars, signingVars, readyVars,
                   lock_readers, returned>>

\* drain: self.verification_pool.read()
drain_read(d) ==
    /\ pc[d] = "idle"
    /\ read_available
    /\ lock_readers' = lock_readers \cup {d}
    /\ pc' = [pc EXCEPT ![d] = "reading"]
    /\ UNCHANGED <<poolVars, scoringVars, signingVars, readyVars,
                   lock_writer, thread_res, historyVars>>

\* drain, first critical section: .pending(ready).collect(), the hashes are kept.
drain_collect(d) ==
    /\ pc[d] = "reading"
    /\ \E res \in pending(verification_pool, account_nonce) :
         thread_res' = [thread_res EXCEPT ![d] = res]
    /\ lock_readers' = readers_after_collect(lock_readers, d)
    /\ between' = [between EXCEPT ![d] = {}]
    /\ pc' = [pc EXCEPT ![d] = "collected"]
    /\ UNCHANGED <<poolVars, scoringVars, signingVars, readyVars,
                   lock_writer, admitted, returned>>

\* drain: self.verification_pool.write()
drain_write(d) ==
    /\ pc[d] = "collected"
    /\ write_available
    /\ lock_writer' = {d}
    /\ pc' = [pc EXCEPT ![d] = "removing"]
    /\ UNCHANGED <<poolVars, scoringVars, signingVars, readyVars,
                   lock_readers, thread_res, historyVars>>

\* drain, second critical section: the collected hashes are removed, the guard is
\* dropped and res is returned.
drain_return(d) ==
    /\ pc[d] = "removing"
    /\ verification_pool' = drain_remove(verification_pool, drain_hashes(thread_res[d]))
    /\ returned' = [tx \in ConcurrentTxs |->
                      IF tx \in Range(thread_res[d]) THEN returned[tx] + 1 ELSE returned[tx]]
    /\ lock_writer' = {}
    /\ pc' = [pc EXCEPT ![d] = "idle"]
    /\ UNCHANGED <<account_nonce, last_call, scoringVars, signingVars, readyVars,
                   lock_readers, thread_res, admitted, between>>

----------------------------------------------------------------------------
Init ==
    /\ verification_pool = EmptyPool
    /\ account_nonce = [s \in Senders |-> 0]
    /\ last_call = [op |-> "new", result |-> "Ok", res |-> <<>>]
    /\ scoring_old = <<>>
    /\ scoring_new = <<>>
    /\ scoring_out = [op |-> "new"]
    /\ transactions = EmptyStore
    /\ signing_call = [op |-> "default", hash |-> 0, arg |-> 0, result |-> "Ok",
                       old_signatures |-> <<>>]
    /\ ready_nonces = NewReadyState
    /\ ready_call = [op |-> "new", tx |-> <<>>, readiness |-> "None"]
    /\ ready_yielded = {}
    /\ lock_writer = {}
    /\ lock_readers = {}
    /\ pc = [t \in Threads |-> "idle"]
    /\ thread_res = [t \in Threads |-> <<>>]
    /\ admitted = [tx \in ConcurrentTxs |-> 0]
    /\ returned = [tx \in ConcurrentTxs |-> 0]
    /\ between = [d \in Drainers |-> {}]

Next ==
    \/ \E tx \in VerifiedPrivateTransaction : VerificationStore_add_transaction(tx)
    \/ VerificationStore_drain
    \/ \E s \in Senders : advance_nonce(s)

Spec == Init /\ [][Next]_vars

NextScoring ==
    \E old \in VerifiedPrivateTransaction, new \in VerifiedPrivateTransaction :
        scoring_call(old, new)

SpecScoring == Init /\ [][NextScoring]_vars

NextReady ==
    \/ PrivateReadyState_new
    \/ \E tx \in VerifiedPrivateTransaction : PrivateReadyState_is_ready(tx)
    \/ \E s \in Senders : advance_nonce(s)

SpecReady == Init /\ [][NextReady]_vars

NextConcurrent ==
    \/ \E a \in Adders, tx \in ConcurrentTxs : add_transaction_verify(a, tx)
    \/ \E a \in Adders : add_transaction_write(a)
    \/ \E a \in Adders : add_transaction_import(a)
    \/ \E d \in Drainers : drain_read(d)
    \/ \E d \in Drainers : drain_collect(d)
    \/ \E d \in Drainers : drain_write(d)
    \/ \E d \in Drainers : drain_return(d)

\* The lock is fair: a thread that asks for it gets it when it is available
\* again and again; a thread that holds what it needs takes its next step.
FairConcurrent ==
    /\ \A a \in Adders : /\ SF_vars(add_transaction_write(a))
                         /\ WF_vars(add_transaction_import(a))
    /\ \A d \in Drainers : /\ SF_vars(drain_read(d))
                           /\ WF_vars(drain_collect(d))
                           /\ SF_vars(drain_write(d))
                           /\ WF_vars(drain_return(d))

SpecConcurrent == Init /\ [][NextConcurrent]_vars /\ FairConcurrent

NextSigning ==
    \/ \E h \in SigningHashes, sub \in Submissions : SigningStore_add_transaction(h, sub)
    \/ \E h \in SigningHashes : SigningStore_remove(h)
    \/ \E h \in SignedHashes, sig \in Signatures : SigningStore_add_signature(h, sig)

SpecSigning == Init /\ [][NextSigning]_vars

----------------------------------------------------------------------------
(* Properties *)

Returned == Range(last_call.res)

\* The fee a record must reach to replace `old` in its slot.
RequiredFee(old) == old.gas_price + (old.gas_price \div 8)

SameSlot(a, b) == a.sender = b.sender /\ a.nonce = b.nonce

NoDuplicates(seq) == \A i, j \in 1..Len(seq) : i # j => seq[i] # seq[j]

\* C1: one drain call never returns two records of the same sender.
C1_OneRecordPerSender ==
    last_call.op = "drain" =>
        \A i, j \in 1..Len(last_call.res) :
            i # j => sender(last_call.res[i]) # sender(last_call.res[j])

\* A drain returned a record of each sender and left a later record of a sender
\* whose record it returned.
C1_Witness ==
    /\ last_call.op = "drain"
    /\ Len(last_call.res) = 2
    /\ \E r \in Returned, t \in PoolTxs(verification_pool) :
         sender(t) = sender(r) /\ t.nonce = r.nonce + 1

\* C2: every record a drain returns has exactly its sender's account nonce, as
\* read in that call: no Stale (lower) and no Future (higher) record is returned,
\* on a first call or on a repeated one.
C2_ReturnedAtAccountNonce ==
    last_call.op = "drain" =>
        \A r \in Returned : r.nonce = account_nonce[sender(r)]

\* A drain returned a record while the pool held a Stale and a Future record,
\* both still there.
C2_Witness ==
    /\ last_call.op = "drain"
    /\ last_call.res # <<>>
    /\ \E t \in PoolTxs(verification_pool) : t.nonce < account_nonce[sender(t)]
    /\ \E t \in PoolTxs(verification_pool) : t.nonce > account_nonce[sender(t)]

\* C3: a drain returns every pool record whose nonce is its sender's account
\* nonce, and no other record of that sender, whatever else the sender has queued.
C3_RecordAtAccountNonceReturned ==
    \A o \in drain(verification_pool, account_nonce) :
        \A t \in PoolTxs(verification_pool) :
            t.nonce = account_nonce[sender(t)] =>
                /\ t \in Range(o.res)
                /\ \A u \in Range(o.res) : sender(u) = sender(t) => u = t

\* C4: a drain removes from the pool exactly the records it returns; every other
\* record stays, in place and unchanged.
C4_DrainRemovesExactlyReturned ==
    \A o \in drain(verification_pool, account_nonce) :
        /\ Range(o.res) \subseteq PoolTxs(verification_pool)
        /\ \A r \in Range(o.res) : hash(r) \notin by_hash(o.pool)
        /\ \A s \in Senders :
             o.pool[s] = SelectSeq(verification_pool[s], LAMBDA t : t \notin Range(o.res))

\* A drain returned one record and left a Stale record and another record behind.
C4_Witness ==
    /\ last_call.op = "drain"
    /\ Len(last_call.res) = 1
    /\ Cardinality(PoolTxs(verification_pool)) >= 2
    /\ \E t \in PoolTxs(verification_pool) : t.nonce < account_nonce[sender(t)]

\* The outcomes of add_transaction(new) that reach the pool's import.
Imports(new) ==
    IF verify_transaction(new, account_nonce) = "Ok"
    THEN add_transaction(verification_pool, account_nonce, new)
    ELSE {}

\* `new` stands in the pool p in place of `old`.
Replaced(p, old, new) == new \in PoolTxs(p) /\ old \notin PoolTxs(p)

C6_ShouldReplace ==
    scoring_out.op = "scoring" =>
        LET old == scoring_old[1]
            new == scoring_new[1]
        IN  /\ (sender(old) = sender(new) /\ new.nonce < old.nonce)
                  => scoring_out.should_replace
            /\ (SameSlot(old, new) /\ scoring_out.should_replace)
                  => new.gas_price >= RequiredFee(old)

\* should_replace preferred an earlier record of the same sender that pays less.
C6_Witness ==
    /\ scoring_out.op = "scoring"
    /\ sender(scoring_old[1]) = sender(scoring_new[1])
    /\ scoring_new[1].nonce < scoring_old[1].nonce
    /\ scoring_new[1].gas_price < scoring_old[1].gas_price
    /\ scoring_out.should_replace

C8_LedgerWithinCapacity ==
    Cardinality(DOMAIN transactions) <= MAX_QUEUE_LEN

\* C9: SigningStore.add_transaction drops no earlier entry: a QueueIsFull call
\* leaves the map unchanged, a successful call changes only the entry at its hash.
C9_AddTransactionFrame ==
    [][signing_call'.op = "add_transaction" =>
         /\ signing_call'.result = "QueueIsFull" => transactions' = transactions
         /\ signing_call'.result \in {"Ok", "QueueIsFull"}
         /\ DOMAIN transactions' \subseteq DOMAIN transactions \cup {signing_call'.hash}
         /\ \A k \in DOMAIN transactions \ {signing_call'.hash} :
              k \in DOMAIN transactions' /\ transactions'[k] = transactions[k]]_vars

\* add_transaction failed with QueueIsFull and the entries, some with
\* signatures, are all still there.
C9_Witness ==
    /\ signing_call.op = "add_transaction"
    /\ signing_call.result = "QueueIsFull"
    /\ signing_call.hash \notin DOMAIN transactions
    /\ \E k \in DOMAIN transactions : transactions[k].received_signatures # <<>>

\* C10: no received_signatures list ever holds two equal signatures;
\* add_signature with a stored signature leaves the record unchanged, with a new
\* one it appends exactly one copy.
C10_SignaturesNotDuplicated ==
    [][/\ \A h \in DOMAIN transactions' :
            NoDuplicates(transactions'[h].received_signatures)
       /\ (signing_call'.op = "add_signature" /\ signing_call'.hash \in DOMAIN transactions)
            => LET h == signing_call'.hash
                   before == transactions[h].received_signatures
               IN  /\ h \in DOMAIN transactions'
                   /\ IF signing_call'.arg \in Range(before)
                      THEN transactions'[h] = transactions[h]
                      ELSE transactions'[h].received_signatures =
                               Append(before, signing_call'.arg)]_vars

\* add_signature was called with the first of two stored signatures.
C10_Witness ==
    /\ signing_call.op = "add_signature"
    /\ signing_call.result = "Ok"
    /\ signing_call.hash \in DOMAIN transactions
    /\ Len(transactions[signing_call.hash].received_signatures) = 2
    /\ transactions[signing_call.hash].received_signatures[1] = signing_call.arg

\* The validator that made a signature (recovered from it by the caller; the
\* store never looks at it).
Signer(sig) == sig

\* The submission add_transaction was called with, from the recorded call.
SubmissionOf(call) == CHOOSE sub \in Submissions : sub.transaction = call.arg

\* C11: add_signature for a hash with no entry fails with
\* PrivateTransactionNotFound and leaves the store unchanged: no entry is made.
C11_AddSignatureUnknownHash ==
    [][(signing_call'.op = "add_signature" /\ signing_call'.hash \notin DOMAIN transactions)
         => /\ signing_call'.result = "PrivateTransactionNotFound"
            /\ transactions' = transactions]_vars

\* add_signature failed for a hash that is not stored, beside stored entries.
C11_Witness ==
    /\ signing_call.op = "add_signature"
    /\ signing_call.result = "PrivateTransactionNotFound"
    /\ signing_call.hash \notin DOMAIN transactions
    /\ DOMAIN transactions # {}

\* C12: remove(hash) always succeeds; afterwards get(hash) is nothing and every
\* other entry is unchanged; a second remove of the same hash changes nothing.
C12_RemoveIdempotent ==
    [][\A h \in SigningHashes :
         (signing_call'.op = "remove" /\ signing_call'.hash = h)
           => /\ signing_call'.result = "Ok"
              /\ SigningStore_get(h)' = <<>>
              /\ DOMAIN transactions' = DOMAIN transactions \ {h}
              /\ \A k \in DOMAIN transactions \ {h} : transactions'[k] = transactions[k]
              /\ (signing_call.op = "remove" /\ signing_call.hash = h)
                   => transactions' = transactions]_vars

\* remove took out an entry and left another one, with its signatures, in place.
C12_Witness ==
    /\ signing_call.op = "remove"
    /\ signing_call.hash \notin DOMAIN transactions
    /\ Cardinality(DOMAIN transactions) >= 2
    /\ \E k \in DOMAIN transactions : transactions[k].received_signatures # <<>>

\* C13: add_signature on a stored hash succeeds whoever the signer is and changes
\* nothing but that record's received_signatures, which hold the signature
\* afterwards: the record's transaction, roster, state and contract nonce and
\* every other record are as before.
C13_AddSignatureFrame ==
    [][(signing_call'.op = "add_signature" /\ signing_call'.hash \in DOMAIN transactions)
         => LET h == signing_call'.hash
            IN  /\ signing_call'.result = "Ok"
                /\ DOMAIN transactions' = DOMAIN transactions
                /\ \A k \in DOMAIN transactions \ {h} : transactions'[k] = transactions[k]
                /\ transactions'[h].original_transaction = transactions[h].original_transaction
                /\ transactions'[h].validators = transactions[h].validators
                /\ transactions'[h].state = transactions[h].state
                /\ transactions'[h].contract_nonce = transactions[h].contract_nonce
                /\ signing_call'.arg \in Range(transactions'[h].received_signatures)]_vars

\* add_signature stored the signature of a signer that is not in the record's
\* roster, while other records are stored.
C13_Witness ==
    /\ signing_call.op = "add_signature"
    /\ signing_call.result = "Ok"
    /\ signing_call.hash \in DOMAIN transactions
    /\ Signer(signing_call.arg) \notin Range(transactions[signing_call.hash].validators)
    /\ signing_call.arg \in Range(transactions[signing_call.hash].received_signatures)
    /\ Cardinality(DOMAIN transactions) >= 2

\* C14: a successful add_transaction for a stored hash overwrites the record: it
\* holds the submitted transaction, roster, state and contract nonce and no
\* signature, whatever signatures the old record had.
C14_AddTransactionOverwrites ==
    [][(signing_call'.op = "add_transaction" /\ signing_call'.result = "Ok"
          /\ signing_call'.hash \in DOMAIN transactions)
         => LET h == signing_call'.hash
                sub == SubmissionOf(signing_call')
            IN  /\ h \in DOMAIN transactions'
                /\ transactions'[h].original_transaction = sub.transaction
                /\ transactions'[h].validators = sub.validators
                /\ transactions'[h].state = sub.state
                /\ transactions'[h].contract_nonce = sub.contract_nonce
                /\ transactions'[h].received_signatures = <<>>]_vars

\* add_transaction replaced a record that had two signatures; the record now
\* stored has none.
C14_Witness ==
    /\ signing_call.op = "add_transaction"
    /\ signing_call.result = "Ok"
    /\ Len(signing_call.old_signatures) = 2
    /\ transactions[signing_call.hash].received_signatures = <<>>
    /\ transactions[signing_call.hash].original_transaction = signing_call.arg

\* The order of two (sender, nonce) pairs, sender first.
cmp_sender_nonce(a, b) ==
    IF a.sender # b.sender THEN cmp(a.sender, b.sender) ELSE cmp(a.nonce, b.nonce)

\* The result of compare does not depend on the two records' gas prices.
CompareIgnoresFee(old, new) ==
    \A g1 \in GasPrices, g2 \in GasPrices :
        compare([old EXCEPT !.gas_price = g1], [new EXCEPT !.gas_price = g2])
            = compare(old, new)

\* C19 as stated: compare orders two records by (sender, nonce) ascending, its
\* result does not depend on their gas prices, and for two records of one
\* sender it is the order of their nonces.
C19_CompareBySenderThenNonce ==
    scoring_out.op = "scoring" =>
        LET old == scoring_old[1]
            new == scoring_new[1]
        IN  /\ scoring_out.compare = cmp_sender_nonce(old, new)
            /\ CompareIgnoresFee(old, new)
            /\ old.sender = new.sender => scoring_out.compare = cmp(old.nonce, new.nonce)

\* C19 amended: compare orders two records by nonce ascending alone; its result
\* depends neither on their gas prices nor on their senders, and for two records
\* of one sender it is the order of their nonces.
C19_CompareByNonceOnly ==
    scoring_out.op = "scoring" =>
        LET old == scoring_old[1]
            new == scoring_new[1]
        IN  /\ scoring_out.compare = cmp(old.nonce, new.nonce)
            /\ CompareIgnoresFee(old, new)
            /\ \A s1 \in Senders, s2 \in Senders :
                 compare([old EXCEPT !.sender = s1], [new EXCEPT !.sender = s2])
                     = scoring_out.compare

\* compare put a record of the lower sender after a cheaper record of the higher
\* sender, because its nonce is higher.
C19_Witness ==
    /\ scoring_out.op = "scoring"
    /\ scoring_old[1].sender < scoring_new[1].sender
    /\ scoring_old[1].nonce > scoring_new[1].nonce
    /\ scoring_old[1].gas_price > scoring_new[1].gas_price
    /\ scoring_out.compare = "Greater"

\* The nonce a PrivateReadyState expects of a sender: its stored entry, seeded
\* from the account nonce when the sender is seen first.
Cursor(s) == IF s \in DOMAIN ready_nonces THEN ready_nonces[s] ELSE account_nonce[s]

\* The Readiness a record's nonce has against a cursor.
ReadinessAt(nonce, cursor) ==
    CASE cmp(nonce, cursor) = "Less" -> "Stale"
      [] cmp(nonce, cursor) = "Greater" -> "Future"
      [] cmp(nonce, cursor) = "Equal" -> "Ready"

\* The step is a call is_ready(tx) on the PrivateReadyState.
IsReadyStep(tx) ==
    /\ ready_call'.op = "is_ready"
    /\ ready_call'.tx = <<tx>>
    /\ account_nonce' = account_nonce
    /\ <<ready_nonces, ready_call>>' # <<ready_nonces, ready_call>>

\* C17: for a sender that has not yielded Ready in this PrivateReadyState,
\* is_ready answers Stale for a nonce below the sender's cursor, Future for one
\* above it and Ready for one equal to it.
C17_VerdictByCursor ==
    [][\A tx \in VerifiedPrivateTransaction :
         (IsReadyStep(tx) /\ sender(tx) \notin ready_yielded)
           => ready_call'.readiness = ReadinessAt(tx.nonce, Cursor(sender(tx)))]_vars

\* C18: is_ready answers Ready at most once per sender, and every record of a
\* sender that has yielded Ready gets Future, whatever its nonce.
C18_ReadyOncePerSender ==
    [][\A tx \in VerifiedPrivateTransaction :
         IsReadyStep(tx)
           => /\ sender(tx) \in ready_yielded => ready_call'.readiness = "Future"
              /\ ready_call'.readiness = "Ready" => sender(tx) \notin ready_yielded]_vars

\* A record at the advanced cursor of a sender that has yielded Ready got Future.
C18_Witness ==
    /\ ready_call.op = "is_ready"
    /\ ready_call.readiness = "Future"
    /\ sender(ready_call.tx[1]) \in ready_yielded
    /\ ready_call.tx[1].nonce = ready_nonces[sender(ready_call.tx[1])]

\* The step is the second critical section of drainer d's drain.
RemovePhase(d) == pc[d] = "removing" /\ pc'[d] = "idle"

LockDiscipline ==
    /\ Cardinality(lock_writer) <= 1
    /\ lock_writer # {} => lock_readers = {}
    /\ \A t \in Threads : t \in lock_readers <=> pc[t] = "reading"
    /\ \A t \in Threads : t \in lock_writer <=> pc[t] \in {"importing", "removing"}

\* The pool changes only in a step of the thread that holds the lock exclusively.
MutationUnderWriteLock ==
    verification_pool' # verification_pool
        => \E t \in lock_writer : pc[t] \in {"importing", "removing"} /\ pc'[t] = "idle"

\* C16: add_transaction changes the pool only while it holds the lock
\* exclusively; drain's two critical sections are separate, the shared lock is
\* released before the exclusive one is requested; under a fair lock every call
\* of concurrent add_transaction and drain calls returns.
C16_EveryCallReturns ==
    /\ []LockDiscipline
    /\ [][MutationUnderWriteLock]_vars
    /\ \A t \in Threads : (pc[t] # "idle") ~> (pc[t] = "idle")

\* A drainer removes under the exclusive lock while the other drainer and the
\* adder wait for it.
C16_Witness ==
    \E d \in Drainers :
        /\ lock_writer = {d}
        /\ pc[d] = "removing"
        /\ \A e \in Drainers \ {d} : pc[e] = "collected"
        /\ \A a \in Adders : pc[a] = "verified"

\* C20: a record is returned by drain calls at most as often as it was
\* admitted: no two drains return the same admitted record.
C20_ReturnedAtMostOnce ==
    \A tx \in ConcurrentTxs : returned[tx] <= admitted[tx]

====
